---------------------------- MODULE Spec2Model ----------------------------
(***************************************************************************)
(* A model of udev-hid-bpf's device-identity resolution and candidate      *)
(* selection: Modalias::from_str, HidUdev::from_syspath,                   *)
(* HidUdev::load_bpf_from_directory (src/hidudev.rs) and cmd_add,          *)
(* cmd_remove, sysname_from_syspath (src/main.rs).                         *)
(*                                                                         *)
(* Strings are TLA+ strings of ASCII characters, so that a character is a  *)
(* byte and str::len() is Len.  Numbers stay below 2^31 (the inputs never  *)
(* spell an 8-digit field above 7FFFFFFF).                                 *)
(***************************************************************************)
EXTENDS Integers, Sequences, FiniteSets, TLC

VARIABLES
    modalias,      \* SpecModalias: the argument of Modalias::from_str
    parsed,        \* SpecModalias: its result, or NotYet
    s_syspath,     \* SpecSysname: the argument of sysname_from_syspath
    s_link,        \* SpecSysname: what read_link(syspath) answers
    s_result,      \* SpecSysname: its result, or NotYet
    m_dir,         \* SpecMatch: the program directory's path
    m_modalias,    \* SpecMatch: the device's MODALIAS property
    m_entries,     \* SpecMatch: what read_dir yields, in order
    m_matches,     \* SpecMatch: the matches vector, or NotYet
    r_lookup,      \* SpecResolve: what udev::Device::from_syspath answers
    r_result,      \* SpecResolve: the result of HidUdev::from_syspath, or NotYet
    pc,            \* Spec: where the invocation stands
    cmd,           \* Spec: "add" or "remove"
    syspath,       \* Spec: the devpath argument, a sequence of components
    lookup,        \* Spec: what udev::Device::from_syspath answered
    dev,           \* Spec: the HidUdev handle (an index into lookup.chain), 0 if none
    link,          \* Spec: what read_link(syspath) answered in the fallback
    fallback,      \* Spec: the result of sysname_from_syspath, or NotYet
    purges,        \* Spec: the names bpf::remove_bpf_objects was called with
    bpfdir,        \* Spec: the bpfdir argument
    bpf_dir,       \* Spec: the directory handed to load_bpf_from_directory
    prog,          \* Spec: the prog argument
    modalias_read, \* Spec: whether the MODALIAS property was read
    entries,       \* Spec: what read_dir yielded, in order
    matches,       \* Spec: the candidates collected
    loader,        \* Spec: whether bpf::HidBPF::new() was called
    loads,         \* Spec: the (path, outcome) of each load_programs call, in order
    result         \* Spec: how the invocation ended

parseVars == <<modalias, parsed>>
sysVars   == <<s_syspath, s_link, s_result>>
matchVars == <<m_dir, m_modalias, m_entries, m_matches>>
resVars   == <<r_lookup, r_result>>
flowVars  == <<pc, cmd, syspath, lookup, dev, link, fallback, purges, bpfdir, bpf_dir,
               prog, modalias_read, entries, matches, loader, loads, result>>
vars == <<parseVars, sysVars, matchVars, resVars, flowVars>>

NotYet == [tag |-> "NotYet"]
Unread == [state |-> "unread", list |-> <<>>]
None   == [tag |-> "None"]
Some(x) == [tag |-> "Some", val |-> x]

(***************************************************************************)
(* Bounds of the model.                                                    *)
(***************************************************************************)
MaxPrefixes == 2     \* how many times "hid:" is written before an identity
MaxDepth == 3        \* devices on the path from an entry to the tree's root
MaxEntries == 2      \* entries of the program directory in an add invocation
MaxDirEntries == 2   \* entries of the program directory in SpecMatch

(***************************************************************************)
(* Characters and strings.                                                 *)
(***************************************************************************)
Char(s, i) == SubSeq(s, i, i)
Drop(s, n) == SubSeq(s, n + 1, Len(s))
Take(s, n) == SubSeq(s, 1, n)
StartsWith(s, p) == Len(s) >= Len(p) /\ Take(s, Len(p)) = p
EndsWith(s, p) == Len(s) >= Len(p) /\ Drop(s, Len(s) - Len(p)) = p

UpperStr == "ABCDEFGHIJKLMNOPQRSTUVWXYZ"
LowerStr == "abcdefghijklmnopqrstuvwxyz"
DigitStr == "0123456789"
CharsOf(s) == {Char(s, i) : i \in 1..Len(s)}
UpperLetters == CharsOf(UpperStr)
LowerLetters == CharsOf(LowerStr)
Digits == CharsOf(DigitStr)
IndexIn(s, c) == CHOOSE i \in 1..Len(s) : Char(s, i) = c
LowerOf == [c \in UpperLetters |-> Char(LowerStr, IndexIn(UpperStr, c))]
UpperOf == [c \in LowerLetters |-> Char(UpperStr, IndexIn(LowerStr, c))]
ToLowerChar(c) == IF c \in UpperLetters THEN LowerOf[c] ELSE c
ToUpperChar(c) == IF c \in LowerLetters THEN UpperOf[c] ELSE c

\* The string with each letter's case set, by halves.
RECURSIVE MapChars(_, _)
MapChars(s, up) ==
    IF s = "" THEN ""
    ELSE IF Len(s) = 1 THEN (IF up THEN ToUpperChar(s) ELSE ToLowerChar(s))
    ELSE LET h == Len(s) \div 2
         IN  MapChars(Take(s, h), up) \o MapChars(Drop(s, h), up)
to_lowercase(s) == MapChars(s, FALSE)
to_uppercase(s) == MapChars(s, TRUE)

(***************************************************************************)
(* u32::from_str_radix(src, 16): an optional '+' sign, then one or more    *)
(* digits 0-9, a-f, A-F; a '-' is no sign for an unsigned type.            *)
(***************************************************************************)
HexStr == "0123456789abcdef"
HexDigits == CharsOf(HexStr) \cup CharsOf("ABCDEF")
to_digit(c) == IndexIn(HexStr, ToLowerChar(c)) - 1

ParseOk(n) == [ok |-> TRUE, val |-> n]
ParseErr(k) == [ok |-> FALSE, kind |-> k]

RECURSIVE Accumulate(_, _)
Accumulate(digits, acc) ==
    IF digits = "" THEN ParseOk(acc)
    ELSE IF Char(digits, 1) \notin HexDigits THEN ParseErr("InvalidDigit")
    ELSE Accumulate(Drop(digits, 1), acc * 16 + to_digit(Char(digits, 1)))

\* A parser that tells the letters' case apart: upper-case digits only.
from_str_radix_upper_only(src) ==
    IF src # to_uppercase(src) THEN ParseErr("InvalidDigit")
    ELSE IF src = "" THEN ParseErr("Empty")
    ELSE IF src \in {"+", "-"} THEN ParseErr("InvalidDigit")
    ELSE IF Char(src, 1) = "+" THEN Accumulate(Drop(src, 1), 0)
    ELSE Accumulate(src, 0)

from_str_radix(src) ==
    IF src = "" THEN ParseErr("Empty")
    ELSE IF src \in {"+", "-"} THEN ParseErr("InvalidDigit")
    ELSE IF Char(src, 1) = "+" THEN Accumulate(Drop(src, 1), 0)
    ELSE Accumulate(src, 0)

(***************************************************************************)
(* Modalias::from_str.                                                     *)
(***************************************************************************)
ModaliasLen == 28

RECURSIVE trim_start_matches(_, _)
trim_start_matches(s, pat) ==
    IF StartsWith(s, pat) THEN trim_start_matches(Drop(s, Len(pat)), pat) ELSE s

\* &s[a..b] of the source: the bytes a, ..., b-1, counted from 0.
Slice(s, a, b) == SubSeq(s, a + 1, b)

InvalidData == [ok |-> FALSE, kind |-> "InvalidData"]

Modalias_from_str(raw) ==
    LET s == trim_start_matches(raw, "hid:")
        bus == from_str_radix(Slice(s, 1, 5))
        group == from_str_radix(Slice(s, 6, 10))
        vid == from_str_radix(Slice(s, 11, 19))
        pid == from_str_radix(Slice(s, 20, 28))
    IN  IF Len(s) # ModaliasLen THEN InvalidData
        ELSE IF ~bus.ok THEN InvalidData
        ELSE IF ~group.ok THEN InvalidData
        ELSE IF ~vid.ok THEN InvalidData
        ELSE IF ~pid.ok THEN InvalidData
        ELSE [ok |-> TRUE, bus |-> bus.val, group |-> group.val,
              vid |-> vid.val, pid |-> pid.val]

\* The MODALIAS property is absent (None) or a string.
Modalias_from_udev_device(property) ==
    Modalias_from_str(IF property = None THEN "hid:empty" ELSE property.val)

(***************************************************************************)
(* SpecModalias: Modalias::from_str applied to identity strings written    *)
(* with zero or more "hid:" prefixes, four separators and four fields.     *)
(***************************************************************************)
RECURSIVE Repeat(_, _)
Repeat(s, n) == IF n = 0 THEN "" ELSE s \o Repeat(s, n - 1)

Separators == {<<"b", "g", "v", "p">>, <<"B", "G", "V", "P">>, <<":", ":", ":", ".">>}
BusFields == {"0003", "001f", "001F", "003", "+003", "-003", "00g3"}
GroupFields == {"0001", "0102", "01"}
VidFields == {"000004D9", "000004d9", "04D9", "0000g4D9", "+00004D9", "7FFFFFFF"}
PidFields == {"0000A09F", "0000a09f", "A09F", "0000+09F"}

ModaliasInputs ==
    {Repeat("hid:", k) \o sep[1] \o b \o sep[2] \o g \o sep[3] \o v \o sep[4] \o p :
        k \in 0..MaxPrefixes, sep \in Separators, b \in BusFields,
        g \in GroupFields, v \in VidFields, p \in PidFields}

SysIdle == s_syspath = <<>> /\ s_link = None /\ s_result = NotYet
MatchIdle == m_dir = "" /\ m_modalias = None /\ m_entries = <<>> /\ m_matches = NotYet
ResIdle == r_lookup = NotYet /\ r_result = NotYet
FlowIdle ==
    /\ pc = "idle" /\ cmd = "" /\ syspath = <<>> /\ lookup = NotYet /\ dev = 0
    /\ link = None /\ fallback = NotYet /\ purges = <<>> /\ bpfdir = None /\ bpf_dir = ""
    /\ prog = None /\ modalias_read = FALSE /\ entries = Unread /\ matches = <<>>
    /\ loader = FALSE /\ loads = <<>> /\ result = NotYet

InitModalias ==
    /\ modalias \in ModaliasInputs
    /\ parsed = NotYet
    /\ SysIdle /\ MatchIdle /\ ResIdle /\ FlowIdle

FromStr ==
    /\ parsed = NotYet
    /\ parsed' = Modalias_from_str(modalias)
    /\ UNCHANGED <<modalias, sysVars, matchVars, resVars, flowVars>>

NextModalias == FromStr

SpecModalias == InitModalias /\ [][NextModalias]_vars

(***************************************************************************)
(* sysname_from_syspath.  A path is the sequence of its components;        *)
(* read_link answers None (not a link, or no such file) or the target.     *)
(***************************************************************************)
\* The regular expression, "X" standing for the class [A-Z0-9].
SysnameRe == "XXXX:XXXX:XXXX.XXXX"

ReAtom(a, c) ==
    IF a = "X" THEN c \in UpperLetters \cup Digits ELSE c = a

\* Regex::captures(d).is_some(): the expression matches somewhere in d.
ReFind(re, d) ==
    \E i \in 0..(Len(d) - Len(re)) :
        \A k \in 1..Len(re) : ReAtom(Char(re, k), Char(d, i + k))

\* Path::file_name: the last component, unless the path ends in "..".
file_name(path) ==
    IF path = <<>> \/ path[Len(path)] = ".." THEN None
    ELSE Some(path[Len(path)])

Ok(x) == [ok |-> TRUE, val |-> x]
OsError(e) == [ok |-> FALSE, kind |-> "Os", errno |-> e]

\* The function with the link left unresolved.
sysname_from_syspath_nolink(path, lnk) ==
    LET name == file_name(path)
    IN  IF name # None /\ ReFind(SysnameRe, name.val) THEN Ok(name.val)
        ELSE OsError("EINVAL")

sysname_from_syspath(path, lnk) ==
    LET abspath == IF lnk = None THEN path ELSE lnk.val
        name == file_name(abspath)
    IN  IF name # None /\ ReFind(SysnameRe, name.val) THEN Ok(name.val)
        ELSE OsError("EINVAL")

(***************************************************************************)
(* SpecSysname: sysname_from_syspath applied to paths and link targets.    *)
(***************************************************************************)
Segments ==
    {"0003:04F3:2D4A.0001", "1234", "0003:04F3:2D4A-0001", "0003:04F3:2D4A.00011",
     "x0003:04F3:2D4A.0001", "0003:04f3:2d4a.0001", "GHIJ:04F3:2D4A.0001",
     "0003:04F3:2D4A.001", "0003.04F3:2D4A.0001", "device", "..", "ABCD:EF01:2345.6789"}

Paths == {<<>>} \cup {<<"sys", "blah", seg>> : seg \in Segments}
Links == {None} \cup {Some(<<"sys", "devices", seg>>) : seg \in Segments}

InitSysname ==
    /\ s_syspath \in Paths
    /\ s_link \in Links
    /\ s_result = NotYet
    /\ modalias = "" /\ parsed = NotYet
    /\ MatchIdle /\ ResIdle /\ FlowIdle

SysnameFromSyspath ==
    /\ s_result = NotYet
    /\ s_result' = sysname_from_syspath(s_syspath, s_link)
    /\ UNCHANGED <<s_syspath, s_link, parseVars, matchVars, resVars, flowVars>>

NextSysname == SysnameFromSyspath

SpecSysname == InitSysname /\ [][NextSysname]_vars

(***************************************************************************)
(* The candidate matcher of load_bpf_from_directory: the glob built from   *)
(* the directory and the identity, and globset's matching of a path        *)
(* against it.  The glob syntax modelled is what the pattern uses: a       *)
(* backslash escape, '*' (any run of characters but '/', as                *)
(* literal_separator(true) makes it), a brace alternation and literals.    *)
(* The directory paths of the model hold none of the glob's special        *)
(* characters.                                                             *)
(***************************************************************************)
HexUpperStr == "0123456789ABCDEF"

RECURSIVE HexDigitsOf(_)
HexDigitsOf(n) ==
    IF n < 16 THEN Char(HexUpperStr, n + 1)
    ELSE HexDigitsOf(n \div 16) \o Char(HexUpperStr, (n % 16) + 1)

\* format!("{:0wX}", n): upper-case hexadecimal, zero-padded to w digits at least.
FormatHex(n, w) ==
    LET d == HexDigitsOf(n)
    IN  IF Len(d) >= w THEN d ELSE Repeat("0", w - Len(d)) \o d

\* PathBuf::join of a directory and a relative name.
PathJoin(dir, name) == dir \o "/" \o name

glob_path(dir, m) ==
    PathJoin(dir,
        "b{" \o FormatHex(m.bus, 4) \o ",\\*}g{" \o FormatHex(m.group, 4)
        \o ",\\*}v{" \o FormatHex(m.vid, 8) \o ",\\*}p{" \o FormatHex(m.pid, 8)
        \o ",\\*}*.bpf.o")

\* The index of the '}' closing the alternation that p opens, escapes skipped.
RECURSIVE CloseBrace(_, _)
CloseBrace(p, i) ==
    IF i > Len(p) THEN 0
    ELSE IF Char(p, i) = "\\" THEN CloseBrace(p, i + 2)
    ELSE IF Char(p, i) = "}" THEN i
    ELSE CloseBrace(p, i + 1)

\* The alternatives of an alternation's inside, split at its unescaped commas.
RECURSIVE Alternatives(_, _)
Alternatives(inner, cur) ==
    IF inner = "" THEN {cur}
    ELSE IF Char(inner, 1) = "\\" THEN Alternatives(Drop(inner, 2), cur \o Take(inner, 2))
    ELSE IF Char(inner, 1) = "," THEN {cur} \cup Alternatives(Drop(inner, 1), "")
    ELSE Alternatives(Drop(inner, 1), cur \o Char(inner, 1))

LiteralEq(a, b, case_insensitive) ==
    IF case_insensitive THEN ToLowerChar(a) = ToLowerChar(b) ELSE a = b

NoSeparator(s) == \A i \in 1..Len(s) : Char(s, i) # "/"

GlobSpecial == {"\\", "*", "{"}

\* How many literal characters the pattern starts with.
LiteralRun(p) ==
    LET special == {i \in 1..Len(p) : Char(p, i) \in GlobSpecial}
    IN  IF special = {} THEN Len(p)
        ELSE (CHOOSE i \in special : \A j \in special : i <= j) - 1

RECURSIVE GlobMatch(_, _, _)
GlobMatch(p, s, ci) ==
    IF p = "" THEN s = ""
    ELSE LET c == Char(p, 1)
             n == LiteralRun(p)
         IN  CASE c = "\\" ->
                     /\ Len(p) >= 2 /\ s # ""
                     /\ LiteralEq(Char(p, 2), Char(s, 1), ci)
                     /\ GlobMatch(Drop(p, 2), Drop(s, 1), ci)
               [] c = "*" ->
                     \E k \in 0..Len(s) :
                         NoSeparator(Take(s, k)) /\ GlobMatch(Drop(p, 1), Drop(s, k), ci)
               [] c = "{" ->
                     LET close == CloseBrace(p, 2)
                     IN  /\ close # 0
                         /\ \E a \in Alternatives(SubSeq(p, 2, close - 1), "") :
                                GlobMatch(a \o Drop(p, close), s, ci)
               [] OTHER ->
                     /\ Len(s) >= n
                     /\ \A i \in 1..n : LiteralEq(Char(p, i), Char(s, i), ci)
                     /\ GlobMatch(Drop(p, n), Drop(s, n), ci)

\* GlobBuilder ... .literal_separator(true).case_insensitive(true) ... is_match(path)
is_match(glob, path) == GlobMatch(glob, path, TRUE)

\* Path::is_file: a regular file, or a symbolic link that leads to one.
is_file(e) == e.kind \in {"file", "link_to_file"}

\* The loop over read_dir: entries that are errors are skipped, and a path is
\* pushed when the glob matches it and it is a file.
RECURSIVE collect_matches(_, _, _)
collect_matches(dir, glob, ents) ==
    IF ents = <<>> THEN <<>>
    ELSE LET e == Head(ents)
             path == PathJoin(dir, e.name)
             rest == collect_matches(dir, glob, Tail(ents))
         IN  IF e.kind # "error" /\ is_match(glob, path) /\ is_file(e)
             THEN <<path>> \o rest
             ELSE rest

(***************************************************************************)
(* SpecMatch: the matcher applied to a directory listing.  The names are   *)
(* every exact/wildcard combination for the identity                       *)
(* b0003g0001v000004D9p0000A09F, and names that differ from one of them    *)
(* in case, in one field, in the suffix or in what surrounds the fields.   *)
(***************************************************************************)
DEFAULT_BPF_DIR == "/usr/local/lib/firmware/hid/bpf"
TARGET_BPF_DIR == "target/bpf"

Combinations ==
    {"b" \o b \o "g" \o g \o "v" \o v \o "p" \o p \o ".bpf.o" :
        b \in {"0003", "*"}, g \in {"0001", "*"},
        v \in {"000004D9", "*"}, p \in {"0000A09F", "*"}}

Variants ==
    {"b0003g0001v000004d9p0000a09f.bpf.o", "b0003g0001v000004D9p0000A09F-mouse.bpf.o",
     "b0003g0001v000004DAp0000A09F.bpf.o", "b0005g0001v000004D9p0000A09F.bpf.o",
     "b0003g0001v000004D9p0000A09F.o", "b0003g0001v000004D9p0000A09F.bpf.c",
     "b0003g0001v000004D9p0000A09F.BPF.O", "B0003G0001V000004D9P0000A09F.bpf.o",
     "xb0003g0001v000004D9p0000A09F.bpf.o", "b3g1v4D9pA09F.bpf.o",
     "b**g0001v000004D9p0000A09F.bpf.o", "b*v000004D9p0000A09F.bpf.o",
     "b0003g0001v*p0000A09F.bpf.o.bak", "README"}

Kinds == {"file", "dir", "link_to_file", "link_to_dir"}
ErrorEntry == [name |-> "", kind |-> "error"]
DirEntries == {[name |-> n, kind |-> k] : n \in Combinations \cup Variants, k \in Kinds}
                  \cup {ErrorEntry}

RECURSIVE SeqsUpTo(_, _)
SeqsUpTo(S, n) ==
    IF n = 0 THEN {<<>>}
    ELSE LET shorter == SeqsUpTo(S, n - 1)
         IN  shorter \cup {Append(q, x) : q \in {r \in shorter : Len(r) = n - 1}, x \in S}

Identities == {"hid:b0003g0001v000004D9p0000A09F", "b0005g0102v0000046Dp0000B0AB"}

\* A directory holds a name once.
DistinctNames(ents) ==
    \A i, j \in 1..Len(ents) : ents[i].name = ents[j].name => i = j

InitMatch ==
    /\ m_dir \in {DEFAULT_BPF_DIR, TARGET_BPF_DIR}
    /\ m_modalias \in {Some(i) : i \in Identities}
    /\ m_entries \in {ents \in SeqsUpTo(DirEntries, MaxDirEntries) : DistinctNames(ents)}
    /\ m_matches = NotYet
    /\ modalias = "" /\ parsed = NotYet
    /\ SysIdle /\ ResIdle /\ FlowIdle

CollectMatches ==
    /\ m_matches = NotYet
    /\ m_matches' = Some(collect_matches(m_dir,
                             glob_path(m_dir, Modalias_from_udev_device(m_modalias)),
                             m_entries))
    /\ UNCHANGED <<m_dir, m_modalias, m_entries, parseVars, sysVars, resVars, flowVars>>

NextMatch == CollectMatches

SpecMatch == InitMatch /\ [][NextMatch]_vars


(***************************************************************************)
(* HidUdev::from_syspath.  udev::Device::from_syspath answers an OS error  *)
(* (ENODEV when the path has no device record) or the device; the model    *)
(* holds the device as the chain that leads from it (chain[1]) through     *)
(* its parents to the root, each with its SUBSYSTEM (None when it has      *)
(* none) and its sysname.                                                  *)
(***************************************************************************)
LookupErr(e) == [tag |-> "Err", errno |-> e]
LookupOk(chain) == [tag |-> "Ok", chain |-> chain]
Device(sub, name) == [subsystem |-> sub, sysname |-> name]

\* The farthest ancestor in the subsystem instead of the nearest.
RECURSIVE farthest_with_subsystem(_, _, _)
farthest_with_subsystem(chain, i, sub) ==
    IF i + 1 > Len(chain) THEN 0
    ELSE LET up == farthest_with_subsystem(chain, i + 1, sub)
         IN  IF up # 0 THEN up
             ELSE IF chain[i + 1].subsystem = Some(sub) THEN i + 1 ELSE 0

\* udev's parent_with_subsystem: the nearest proper ancestor of chain[i] in the
\* subsystem, 0 when there is none.
RECURSIVE parent_with_subsystem(_, _, _)
parent_with_subsystem(chain, i, sub) ==
    IF i + 1 > Len(chain) THEN 0
    ELSE IF chain[i + 1].subsystem = Some(sub) THEN i + 1
    ELSE parent_with_subsystem(chain, i + 1, sub)

\* The handle is the index, in the chain, of the device it wraps.
HidUdev_from_syspath(lk) ==
    IF lk.tag = "Err" THEN OsError(lk.errno)
    ELSE LET is_hid_device == lk.chain[1].subsystem = Some("hid")
             parent == parent_with_subsystem(lk.chain, 1, "hid")
         IN  IF is_hid_device THEN Ok(1)
             ELSE IF parent # 0 THEN Ok(parent)
             ELSE InvalidData

(***************************************************************************)
(* SpecResolve: HidUdev::from_syspath applied to device trees.             *)
(***************************************************************************)
Subsystems == {Some("hid"), Some("hidraw"), Some("usb"), None}
DevName(i) == "dev" \o Char(DigitStr, i + 1)

Chains ==
    {[i \in 1..n |-> Device(subs[i], DevName(i))] :
        n \in 1..MaxDepth, subs \in [1..MaxDepth -> Subsystems]}

Lookups == {LookupErr(e) : e \in {"ENODEV", "EACCES", "ENOMEM"}}
               \cup {LookupOk(c) : c \in Chains}

InitResolve ==
    /\ r_lookup \in Lookups
    /\ r_result = NotYet
    /\ modalias = "" /\ parsed = NotYet
    /\ SysIdle /\ MatchIdle /\ FlowIdle

FromSyspath ==
    /\ r_result = NotYet
    /\ r_result' = HidUdev_from_syspath(r_lookup)
    /\ UNCHANGED <<r_lookup, parseVars, sysVars, matchVars, flowVars>>

NextResolve == FromSyspath

SpecResolve == InitResolve /\ [][NextResolve]_vars

(***************************************************************************)
(* cmd_add and cmd_remove, in the steps they take: the calls to the udev   *)
(* database, the file system, the loader and the pin store are each one    *)
(* step, and what those answer is chosen when the step is taken.           *)
(***************************************************************************)
OkUnit == [ok |-> TRUE, val |-> "()"]
Panic == [ok |-> FALSE, kind |-> "panic"]

\* The fallback taken for any OS error.
is_any_os_error(e) == e.kind = "Os"

\* Some(libc::ENODEV) of e.raw_os_error(), in cmd_remove.
is_enodev(e) == e.kind = "Os" /\ e.errno = "ENODEV"

\* default_bpf_dir: target/bpf when it exists.
default_bpf_dir(target_exists) ==
    IF target_exists THEN TARGET_BPF_DIR ELSE DEFAULT_BPF_DIR

\* The candidate list when a program is named: the named file alone, unmatched.
exact_name_selection(dir, name) == <<PathJoin(dir, name)>>

\* load_bpf_from_directory up to the end of the collecting loop.  dirstate is
\* "absent", "file" (the path exists and is no directory) or "dir";
\* the answer says whether MODALIAS was read, what was collected, and
\* how the function goes on: "return" (Ok), "panic" or "load".
LoadStep(read, found, next) == [modalias_read |-> read, matches |-> found, next |-> next]

\* The same with the identity read before the directory is looked at.
collect_candidates_identity_first(dir, dirstate, name, property, ents) ==
    LET m == Modalias_from_udev_device(property)
        found == collect_matches(dir, glob_path(dir, m), ents)
    IN  IF name # None THEN
            IF dirstate = "absent" THEN LoadStep(FALSE, <<>>, "return")
            ELSE LoadStep(FALSE, exact_name_selection(dir, name.val), "load")
        ELSE IF ~m.ok THEN LoadStep(TRUE, <<>>, "panic")
        ELSE IF dirstate = "absent" THEN LoadStep(TRUE, <<>>, "return")
        ELSE IF dirstate = "file" THEN LoadStep(TRUE, <<>>, "panic")
        ELSE LoadStep(TRUE, found, IF found = <<>> THEN "return" ELSE "load")

collect_candidates(dir, dirstate, name, property, ents) ==
    LET m == Modalias_from_udev_device(property)
        found == collect_matches(dir, glob_path(dir, m), ents)
    IN  IF dirstate = "absent" THEN LoadStep(FALSE, <<>>, "return")
        ELSE IF name # None THEN LoadStep(FALSE, exact_name_selection(dir, name.val), "load")
        ELSE IF ~m.ok THEN LoadStep(TRUE, <<>>, "panic")
        ELSE IF dirstate = "file" THEN LoadStep(TRUE, <<>>, "panic")
        ELSE LoadStep(TRUE, found, IF found = <<>> THEN "return" ELSE "load")

\* A loop that goes on to the next candidate whatever the load answered.
after_load_best_effort(ok, i, n) ==
    IF i < n THEN "loading" ELSE IF ok THEN "return" ELSE "panic"

\* Where the loop over the matches stands after the i-th of n loads: the
\* unwrap of a failed load ends the process.
after_load(ok, i, n) ==
    IF ~ok THEN "panic" ELSE IF i < n THEN "loading" ELSE "return"

HidName == "0003:04F3:2D4A.0001"
FlowChains ==
    {<<Device(Some("hid"), HidName)>>,
     <<Device(Some("hidraw"), "hidraw0"), Device(Some("hid"), HidName), Device(Some("usb"), "1-1:1.0")>>,
     <<Device(Some("usb"), "1-1:1.0"), Device(Some("usb"), "1-1")>>}
FlowLookups == {LookupErr("ENODEV"), LookupErr("EACCES")} \cup {LookupOk(c) : c \in FlowChains}

AddPaths == {<<"sys", "bus", "hid", "devices", HidName>>,
             <<"sys", "class", "hidraw", "hidraw0">>}
RemovePaths == {<<"sys", "bus", "hid", "devices", seg>> :
                   seg \in {HidName, "0003:04F3:2D4A.00011", "0003:04F3:2D4A-0001", "device", ".."}}
FlowLinks == {None} \cup {Some(<<"sys", "devices", seg>>) :
                              seg \in {"0003:04F3:2D4A.0002", "hidraw0"}}

FlowNames == {"b0003g0001v000004D9p0000A09F.bpf.o", "b0003g*v*p*.bpf.o",
              "b0003g0001v000004DAp0000A09F.bpf.o"}
FlowEntries == {[name |-> n, kind |-> "file"] : n \in FlowNames}
                   \cup {[name |-> "b*g*v*p*.bpf.o", kind |-> "dir"], ErrorEntry}
FlowProperties == {None, Some("hid:b0003g0001v000004D9p0000A09F"), Some("hid:b0003g0001v04D9pA09F")}

Init ==
    /\ pc = "start"
    /\ \/ /\ cmd = "add"
          /\ syspath \in AddPaths
          /\ prog \in {None, Some("fix.bpf.o")}
          /\ bpfdir \in {None, Some("/etc/hid-bpf")}
       \/ /\ cmd = "remove"
          /\ syspath \in RemovePaths
          /\ prog = None
          /\ bpfdir = None
    /\ lookup = NotYet /\ dev = 0 /\ link = None /\ fallback = NotYet
    /\ purges = <<>> /\ bpf_dir = "" /\ modalias_read = FALSE /\ entries = Unread
    /\ matches = <<>> /\ loader = FALSE /\ loads = <<>> /\ result = NotYet
    /\ modalias = "" /\ parsed = NotYet
    /\ SysIdle /\ MatchIdle /\ ResIdle

\* HidUdev::from_syspath, and what cmd_add and cmd_remove do with its answer.
Resolve ==
    /\ pc = "start"
    /\ \E lk \in FlowLookups :
          LET r == HidUdev_from_syspath(lk)
          IN  /\ lookup' = lk
              /\ dev' = IF r.ok THEN r.val ELSE 0
              /\ IF r.ok THEN
                     /\ pc' = IF cmd = "add" THEN "load_dir" ELSE "purge"
                     /\ result' = result
                 ELSE IF cmd = "remove" /\ is_enodev(r) THEN
                     /\ pc' = "fallback"
                     /\ result' = result
                 ELSE
                     /\ pc' = "done"
                     /\ result' = r
    /\ UNCHANGED <<cmd, syspath, link, fallback, purges, bpfdir, bpf_dir, prog,
                   modalias_read, entries, matches, loader, loads>>
    /\ UNCHANGED <<parseVars, sysVars, matchVars, resVars>>

\* sysname_from_syspath(syspath)? in cmd_remove.
Fallback ==
    /\ pc = "fallback"
    /\ \E l \in FlowLinks :
          LET r == sysname_from_syspath(syspath, l)
          IN  /\ link' = l
              /\ fallback' = r
              /\ pc' = IF r.ok THEN "purge" ELSE "done"
              /\ result' = IF r.ok THEN result ELSE r
    /\ UNCHANGED <<cmd, syspath, lookup, dev, purges, bpfdir, bpf_dir, prog,
                   modalias_read, entries, matches, loader, loads>>
    /\ UNCHANGED <<parseVars, sysVars, matchVars, resVars>>

\* The name cmd_remove holds: dev.sysname(), or what the fallback returned.
sysname == IF dev # 0 THEN lookup.chain[dev].sysname ELSE fallback.val

\* bpf::remove_bpf_objects(&sysname): the pin store deletes the name's subtree
\* and answers Ok whether or not there was one.
remove_bpf_objects(name) == [purged |-> name, result |-> OkUnit]

Purge ==
    /\ pc = "purge"
    /\ LET r == remove_bpf_objects(sysname)
       IN  /\ purges' = Append(purges, r.purged)
           /\ result' = r.result
    /\ pc' = "done"
    /\ UNCHANGED <<cmd, syspath, lookup, dev, link, fallback, bpfdir, bpf_dir, prog,
                   modalias_read, entries, matches, loader, loads>>
    /\ UNCHANGED <<parseVars, sysVars, matchVars, resVars>>

\* cmd_add's choice of the directory, and load_bpf_from_directory up to the
\* end of the collecting loop.
LoadBpfFromDirectory ==
    /\ pc = "load_dir"
    /\ \E target_exists \in BOOLEAN, dirstate \in {"absent", "file", "dir"},
          property \in FlowProperties, ents \in SeqsUpTo(FlowEntries, MaxEntries) :
          LET dir == IF bpfdir # None THEN bpfdir.val ELSE default_bpf_dir(target_exists)
              step == collect_candidates(dir, dirstate, prog, property, ents)
          IN  \* only a directory is listed, and it holds a name once
              /\ (dirstate # "dir" => ents = <<>>)
              /\ DistinctNames(ents)
              \* target/bpf is asked for only without a bpfdir argument, and
              \* is the directory only when it exists
              /\ (bpfdir # None => ~target_exists)
              /\ (bpfdir = None /\ target_exists => dirstate # "absent")
              /\ bpf_dir' = dir
              /\ entries' = [state |-> dirstate, list |-> ents]
              /\ modalias_read' = step.modalias_read
              /\ matches' = step.matches
              /\ pc' = IF step.next = "load" THEN "new_loader" ELSE "done"
              /\ result' = CASE step.next = "return" -> OkUnit
                              [] step.next = "panic" -> Panic
                              [] OTHER -> result
    /\ UNCHANGED <<cmd, syspath, lookup, dev, link, fallback, purges, bpfdir, prog,
                   loader, loads>>
    /\ UNCHANGED <<parseVars, sysVars, matchVars, resVars>>

\* bpf::HidBPF::new().unwrap()
NewLoader ==
    /\ pc = "new_loader"
    /\ loader' = TRUE
    /\ \E ok \in BOOLEAN :
          /\ pc' = IF ok THEN "loading" ELSE "done"
          /\ result' = IF ok THEN result ELSE Panic
    /\ UNCHANGED <<cmd, syspath, lookup, dev, link, fallback, purges, bpfdir, bpf_dir,
                   prog, modalias_read, entries, matches, loads>>
    /\ UNCHANGED <<parseVars, sysVars, matchVars, resVars>>

\* hid_bpf_loader.load_programs(path, self).unwrap(), for the next path.
LoadPrograms ==
    /\ pc = "loading"
    /\ \E ok \in BOOLEAN :
          LET i == Len(loads) + 1
              next == after_load(ok, i, Len(matches))
          IN  /\ loads' = Append(loads, [path |-> matches[i], ok |-> ok])
              /\ pc' = IF next = "loading" THEN "loading" ELSE "done"
              /\ result' = CASE next = "return" -> OkUnit
                              [] next = "panic" -> Panic
                              [] OTHER -> result
    /\ UNCHANGED <<cmd, syspath, lookup, dev, link, fallback, purges, bpfdir, bpf_dir,
                   prog, modalias_read, entries, matches, loader>>
    /\ UNCHANGED <<parseVars, sysVars, matchVars, resVars>>

Next == Resolve \/ Fallback \/ Purge \/ LoadBpfFromDirectory \/ NewLoader \/ LoadPrograms

Spec == Init /\ [][Next]_vars

(***************************************************************************)
(* What the claims speak of, stated apart from the code's own operators.   *)
(***************************************************************************)
\* The identity string with its "hid:" prefix, if it has one, taken off.
StripPrefix(raw) == IF StartsWith(raw, "hid:") THEN Drop(raw, 4) ELSE raw

AllHex(s) == \A i \in 1..Len(s) : Char(s, i) \in HexDigits

\* The value of a string of hexadecimal digits, read as base 16.
RECURSIVE HexValue(_)
HexValue(s) ==
    IF s = "" THEN 0
    ELSE HexValue(Take(s, Len(s) - 1)) * 16
         + (IndexIn(HexUpperStr, ToUpperChar(Char(s, Len(s)))) - 1)

\* The four field ranges are hexadecimal digits.
FieldsAreHex(s) ==
    /\ AllHex(Slice(s, 1, 5)) /\ AllHex(Slice(s, 6, 10))
    /\ AllHex(Slice(s, 11, 19)) /\ AllHex(Slice(s, 20, 28))

\* C1: a 28-character identity whose four ranges are hexadecimal digits, with
\* or without the "hid:" prefix, parses to the base-16 values of the ranges,
\* and its upper-case and lower-case spellings parse to the same record.
C1_ValidIdentityParses ==
    parsed # NotYet =>
        LET s == StripPrefix(modalias)
            prefix == Take(modalias, Len(modalias) - Len(s))
        IN  (Len(s) = 28 /\ FieldsAreHex(s)) =>
                /\ parsed.ok
                /\ parsed.bus = HexValue(Slice(s, 1, 5))
                /\ parsed.group = HexValue(Slice(s, 6, 10))
                /\ parsed.vid = HexValue(Slice(s, 11, 19))
                /\ parsed.pid = HexValue(Slice(s, 20, 28))
                /\ Modalias_from_str(prefix \o to_uppercase(s)) = parsed
                /\ Modalias_from_str(prefix \o to_lowercase(s)) = parsed

C1_Witness ==
    /\ modalias = "hid:b001fg0102v000004d9p0000A09F"
    /\ parsed # NotYet /\ parsed.ok
    /\ parsed.bus = 31 /\ parsed.group = 258 /\ parsed.vid = 1241 /\ parsed.pid = 41119

\* C2: an identity whose length, once the "hid:" prefix is taken off, is not
\* 28 fails with InvalidData.
C2_WrongLengthFails ==
    (parsed # NotYet /\ Len(StripPrefix(modalias)) # 28) => parsed = InvalidData

\* C3: a 28-character identity with a character that is no hexadecimal digit
\* inside one of the four ranges fails with InvalidData.
C3_NonHexFieldFails ==
    (parsed # NotYet /\ Len(StripPrefix(modalias)) = 28
        /\ ~FieldsAreHex(StripPrefix(modalias))) => parsed = InvalidData

\* What remains of a name after the field that letter opens, when the field is
\* the value (whatever the case of its digits) or the marker "*".
AfterField(names, letter, value) ==
    {Drop(n, 2) : n \in {x \in names : Take(x, 2) = letter \o "*"}}
    \cup {Drop(n, 1 + Len(value)) :
              n \in {x \in names : /\ Take(x, 1) = letter
                                   /\ Len(x) >= 1 + Len(value)
                                   /\ to_uppercase(SubSeq(x, 2, 1 + Len(value))) = value}}

\* The name has the form b<F1>g<F2>v<F3>p<F4>... for the identity m.
HasFieldForm(name, m) ==
    AfterField(AfterField(AfterField(AfterField({name},
        "b", FormatHex(m.bus, 4)), "g", FormatHex(m.group, 4)),
        "v", FormatHex(m.vid, 8)), "p", FormatHex(m.pid, 8)) # {}

InSeq(x, q) == \E i \in 1..Len(q) : q[i] = x

\* C4: an entry is selected if and only if it is a regular file, its name
\* ends in ".bpf.o" and its name has the form b<F1>g<F2>v<F3>p<F4>..., each
\* field the device's value (case-insensitively) or "*".
C4_SelectsExactly ==
    m_matches # NotYet =>
        LET m == Modalias_from_udev_device(m_modalias)
        IN  \A i \in 1..Len(m_entries) :
                m_entries[i].kind # "error" =>
                    (InSeq(PathJoin(m_dir, m_entries[i].name), m_matches.val)
                        <=> /\ m_entries[i].kind \in {"file", "link_to_file"}
                            /\ EndsWith(m_entries[i].name, ".bpf.o")
                            /\ HasFieldForm(m_entries[i].name, m))

\* A segment that is exactly XXXX:XXXX:XXXX.XXXX, each X a hexadecimal digit
\* as the kernel writes it (upper case).
IsLogicalName(seg) ==
    /\ Len(seg) = 19
    /\ \A i \in 1..19 :
          IF i \in {5, 10} THEN Char(seg, i) = ":"
          ELSE IF i = 15 THEN Char(seg, i) = "."
          ELSE Char(seg, i) \in Digits \cup CharsOf("ABCDEF")

\* C5: the final segment (of the link's target, when the path is a link) is
\* returned if and only if it is exactly a logical name; any other fails
\* with EINVAL.
C5_ExactLayoutOnly ==
    s_result # NotYet =>
        LET name == file_name(IF s_link = None THEN s_syspath ELSE s_link.val)
        IN  IF name # None /\ IsLogicalName(name.val)
            THEN s_result = Ok(name.val)
            ELSE s_result = OsError("EINVAL")

\* C6 as stated: the device is gone (ENODEV) and the final segment of the
\* given path is a logical name; then cmd_remove succeeds with one purge, of
\* that name.
C6_GivenPathName ==
    (cmd = "remove" /\ pc = "done" /\ lookup = LookupErr("ENODEV")
        /\ file_name(syspath) # None /\ IsLogicalName(file_name(syspath).val))
    => (result = OkUnit /\ purges = <<file_name(syspath).val>>)

\* C6 as amended: the device is gone (ENODEV) and the final segment of the
\* path the fallback examines (the link's target when the given path is a
\* symbolic link, the given path otherwise) is a logical name; then
\* cmd_remove succeeds with one purge, of that name.
C6_ExaminedPathName ==
    /\ Len(purges) <= 1
    /\ (cmd = "remove" /\ pc = "done" /\ lookup = LookupErr("ENODEV")) =>
          LET name == file_name(IF link = None THEN syspath ELSE link.val)
          IN  (name # None /\ IsLogicalName(name.val))
                  => (result = OkUnit /\ purges = <<name.val>>)

C6_Witness ==
    /\ cmd = "remove" /\ pc = "done" /\ lookup = LookupErr("ENODEV")
    /\ file_name(syspath) = Some("device")
    /\ link = Some(<<"sys", "devices", "0003:04F3:2D4A.0002">>)
    /\ result = OkUnit /\ purges = <<"0003:04F3:2D4A.0002">>

\* C7: the program directory does not exist; then the add flow on a resolved
\* device ends in success, the identity unread, no loader created, no load.
C7_MissingDirectoryIsNoOp ==
    (cmd = "add" /\ dev # 0 /\ entries.state = "absent") =>
        /\ pc = "done" /\ result = OkUnit
        /\ ~modalias_read /\ ~loader /\ loads = <<>> /\ matches = <<>>

C7_Witness ==
    /\ cmd = "add" /\ pc = "done" /\ dev = 2 /\ entries.state = "absent"
    /\ prog = None /\ bpf_dir = DEFAULT_BPF_DIR /\ result = OkUnit

\* The error HidUdev::from_syspath ends with, by what the lookup answered.
ResolutionError ==
    IF lookup.tag = "Err" THEN OsError(lookup.errno) ELSE InvalidData

\* C8: the fallback is tried only after ENODEV; any other failure of the
\* resolution, and a path the fallback rejects, is returned as the error, and
\* then there is no purge.
C8_FallbackOnlyOnEnodev ==
    cmd = "remove" =>
        /\ (pc = "fallback" \/ fallback # NotYet) => lookup = LookupErr("ENODEV")
        /\ (lookup # NotYet /\ dev = 0 /\ lookup # LookupErr("ENODEV")) =>
               (pc = "done" /\ result = ResolutionError /\ purges = <<>>)
        /\ (fallback # NotYet /\ ~fallback.ok) =>
               (pc = "done" /\ result = OsError("EINVAL") /\ purges = <<>>)

C8_Witness ==
    /\ cmd = "remove" /\ pc = "done" /\ lookup \in {LookupOk(c) : c \in FlowChains}
    /\ dev = 0 /\ result = InvalidData /\ fallback = NotYet /\ purges = <<>>

\* C9: the loader is invoked for the candidates in the order collected, once
\* each, only after resolution and matching; a failed load ends the
\* invocation in failure and no load follows it.
C9_LoadsInOrderUntilFailure ==
    /\ Len(loads) <= Len(matches)
    /\ \A i \in 1..Len(loads) : loads[i].path = matches[i]
    /\ \A i \in 1..(Len(loads) - 1) : loads[i].ok
    /\ loads # <<>> =>
          (cmd = "add" /\ dev # 0 /\ entries # Unread /\ loader /\ pc \in {"loading", "done"})
    /\ (loads # <<>> /\ ~loads[Len(loads)].ok) => (pc = "done" /\ result = Panic)
    /\ (pc = "done" /\ result = OkUnit) => Len(loads) = Len(matches)

C9_Witness ==
    /\ Len(matches) = 2 /\ Len(loads) = 1 /\ ~loads[1].ok
    /\ pc = "done" /\ result = Panic

\* C10: the handle is the entry when its subsystem is hid, else the nearest
\* ancestor whose subsystem is hid; with no hid device on the chain the call
\* fails with InvalidData, and a failed lookup (ENODEV when the path has no
\* device record) is returned as it is.
C10_NearestHidDevice ==
    r_result # NotYet =>
        IF r_lookup.tag = "Err" THEN r_result = OsError(r_lookup.errno)
        ELSE LET hid == {i \in 1..Len(r_lookup.chain) :
                            r_lookup.chain[i].subsystem = Some("hid")}
             IN  IF hid = {} THEN r_result = InvalidData
                 ELSE /\ r_result.ok
                      /\ r_result.val \in hid
                      /\ \A i \in hid : r_result.val <= i

C10_Witness ==
    /\ r_lookup.tag = "Ok" /\ Len(r_lookup.chain) = 3
    /\ r_lookup.chain[1].subsystem = Some("hidraw")
    /\ r_lookup.chain[2].subsystem = Some("hid")
    /\ r_lookup.chain[3].subsystem = Some("hid")
    /\ r_result = Ok(2)
=============================================================================
